---- MODULE Spec2Model ----
(***************************************************************************)
(* Model of the configuration drift comparison engine of                   *)
(* tools/drift-detection/drift_comparator.py (class DriftComparator).      *)
(*                                                                         *)
(* Python values are tagged records, one field per Python type:            *)
(*   None -> [none |-> TRUE]     str  -> [str  |-> <<chars>>]              *)
(*   bool -> [bool |-> b]        list -> [list |-> <<values>>]             *)
(*   dict -> [dict |-> f], f a function from the keys present to values.   *)
(* A Python str is the sequence of its characters, so that lower(),        *)
(* rsplit(), split(), startswith(), `in` and isdigit() are computed on the *)
(* characters as the interpreter computes them.                            *)
(***************************************************************************)
EXTENDS Integers, Sequences, FiniteSets, TLC

VARIABLES
    baseline,        \* deep_compare: the baseline dict (git side)
    running,         \* deep_compare: the running dict (container side)
    first,           \* result of deep_compare(baseline, running)
    second,          \* result of a second deep_compare(baseline, running)
    swapped,         \* result of deep_compare(running, baseline)
    baseline_image,  \* compare_images argument
    running_image,   \* compare_images argument
    image_result,    \* result of compare_images
    field_path,      \* classify_field_severity argument
    baseline_value,  \* classify_field_severity argument
    running_value,   \* classify_field_severity argument
    severity,        \* result of classify_field_severity
    running_containers,  \* compare_configurations argument (container objects)
    git_baselines,       \* compare_configurations argument (baseline objects)
    match_call,          \* a call of match_container_to_baseline and its result
    report,              \* result of compare_configurations
    ssh_client,          \* DockerInspector.ssh_client
    docker_client,       \* DockerInspector.docker_client
    calls,               \* the DockerInspector calls made so far, with their outcomes
    service_config,      \* _apply_drift_fix argument (the service's compose mapping)
    drift,               \* _apply_drift_fix argument (a pr_generator.DriftItem)
    fixed,               \* service_config after _apply_drift_fix
    dry_run,             \* PRGenerator.dry_run
    queue,               \* drifted services of the report not yet processed
    now,                 \* the clock, in seconds
    branches,            \* local branches of the repository
    checked_out,         \* the checked-out branch
    commits,             \* for each branch, the remediation commits it contains
    dirty,               \* compose files with uncommitted changes
    pr_log               \* generate_pr_for_service calls made so far, with outcomes

vars == <<baseline, running, first, second, swapped,
          baseline_image, running_image, image_result,
          field_path, baseline_value, running_value, severity,
          running_containers, git_baselines, match_call, report,
          ssh_client, docker_client, calls,
          service_config, drift, fixed,
          dry_run, queue, now, branches, checked_out, commits, dirty, pr_log>>

compareVars == <<baseline, running, first, second, swapped>>
imageVars == <<baseline_image, running_image, image_result>>
classifyVars == <<field_path, baseline_value, running_value, severity>>
reportVars == <<running_containers, git_baselines, match_call, report>>
inspectorVars == <<ssh_client, docker_client, calls>>
fixVars == <<service_config, drift, fixed>>
prVars == <<dry_run, queue, now, branches, checked_out, commits, dirty, pr_log>>

----------------------------------------------------------------------------
(* Python values *)

None == [none |-> TRUE]
Str(s) == [str |-> s]
Bool(b) == [bool |-> b]
List(l) == [list |-> l]
Dict(d) == [dict |-> d]

IsNone(v) == "none" \in DOMAIN v
IsStr(v) == "str" \in DOMAIN v
IsBool(v) == "bool" \in DOMAIN v
IsList(v) == "list" \in DOMAIN v
IsDict(v) == "dict" \in DOMAIN v

\* The empty dict: a function with no key.
EmptyDict == [k \in {} |-> None]

----------------------------------------------------------------------------
(* String constants of the source, as character sequences *)

s_empty == << >>
s_dot == <<".">>
s_true == <<"t", "r", "u", "e">>
s_false == <<"f", "a", "l", "s", "e">>
s_True == <<"T", "r", "u", "e">>
s_False == <<"F", "a", "l", "s", "e">>
s_None == <<"N", "o", "n", "e">>
s_latest == <<"l", "a", "t", "e", "s", "t">>
s_image == <<"i", "m", "a", "g", "e">>
s_environment_dot == <<"e", "n", "v", "i", "r", "o", "n", "m", "e", "n", "t", ".">>
s_labels_dot == <<"l", "a", "b", "e", "l", "s", ".">>
s_ports == <<"p", "o", "r", "t", "s">>
s_volumes == <<"v", "o", "l", "u", "m", "e", "s">>
s_mounts == <<"m", "o", "u", "n", "t", "s">>
s_networks == <<"n", "e", "t", "w", "o", "r", "k", "s">>
s_traefik_http_routers == <<"t", "r", "a", "e", "f", "i", "k", ".", "h", "t", "t", "p", ".", "r", "o", "u", "t", "e", "r", "s">>
s_traefik_http_services == <<"t", "r", "a", "e", "f", "i", "k", ".", "h", "t", "t", "p", ".", "s", "e", "r", "v", "i", "c", "e", "s">>
s_container_id == <<"c", "o", "n", "t", "a", "i", "n", "e", "r", "_", "i", "d">>
s_created == <<"c", "r", "e", "a", "t", "e", "d">>
s_started == <<"s", "t", "a", "r", "t", "e", "d">>
s_compose_file == <<"c", "o", "m", "p", "o", "s", "e", "_", "f", "i", "l", "e">>
s_DATABASE_URL == <<"D", "A", "T", "A", "B", "A", "S", "E", "_", "U", "R", "L">>
s_DB_HOST == <<"D", "B", "_", "H", "O", "S", "T">>
s_DB_PORT == <<"D", "B", "_", "P", "O", "R", "T">>
s_REDIS_URL == <<"R", "E", "D", "I", "S", "_", "U", "R", "L">>
s_REDIS_HOST == <<"R", "E", "D", "I", "S", "_", "H", "O", "S", "T">>
s_API_KEY == <<"A", "P", "I", "_", "K", "E", "Y">>
s_API_URL == <<"A", "P", "I", "_", "U", "R", "L">>
s_VPN_ == <<"V", "P", "N", "_">>
s_TUNNEL_ == <<"T", "U", "N", "N", "E", "L", "_">>

----------------------------------------------------------------------------
(* Python str operations, on character sequences *)

UpperChars == <<"A", "B", "C", "D", "E", "F", "G", "H", "I", "J", "K", "L", "M",
                "N", "O", "P", "Q", "R", "S", "T", "U", "V", "W", "X", "Y", "Z">>
LowerChars == <<"a", "b", "c", "d", "e", "f", "g", "h", "i", "j", "k", "l", "m",
                "n", "o", "p", "q", "r", "s", "t", "u", "v", "w", "x", "y", "z">>
DigitChars == {"0", "1", "2", "3", "4", "5", "6", "7", "8", "9"}

\* c.lower() for one character
LowerChar(c) ==
    IF \E i \in 1..26 : UpperChars[i] = c
    THEN LowerChars[CHOOSE i \in 1..26 : UpperChars[i] = c]
    ELSE c

RECURSIVE StrLower(_)
\* s.lower()
StrLower(s) ==
    IF s = << >> THEN << >> ELSE <<LowerChar(Head(s))>> \o StrLower(Tail(s))

\* s.startswith(p)
StartsWith(s, p) == Len(p) <= Len(s) /\ SubSeq(s, 1, Len(p)) = p

\* p in s
Contains(s, p) ==
    \E i \in 1..(Len(s) - Len(p) + 1) : SubSeq(s, i, i + Len(p) - 1) = p

\* c in s, for one character c
HasChar(s, c) == \E i \in 1..Len(s) : s[i] = c

\* s.isdigit(): at least one character and every character a digit
IsDigit(s) == Len(s) > 0 /\ \A i \in 1..Len(s) : s[i] \in DigitChars

FirstIndex(s, c) == CHOOSE i \in 1..Len(s) : s[i] = c /\ \A j \in 1..(i - 1) : s[j] # c
LastIndex(s, c) == CHOOSE i \in 1..Len(s) : s[i] = c /\ \A j \in (i + 1)..Len(s) : s[j] # c

\* s.split(c)[0]
SplitHead(s, c) == IF HasChar(s, c) THEN SubSeq(s, 1, FirstIndex(s, c) - 1) ELSE s

\* s.split(c, 1)[1], for s that contains c
SplitRest(s, c) == SubSeq(s, FirstIndex(s, c) + 1, Len(s))

\* s.rsplit(c, 1), for s that contains c
RSplit(s, c) == <<SubSeq(s, 1, LastIndex(s, c) - 1), SubSeq(s, LastIndex(s, c) + 1, Len(s))>>

\* str(v) for the scalar values None, bool and str
PyStr(v) ==
    CASE IsNone(v) -> s_None
      [] IsBool(v) -> IF v.bool THEN s_True ELSE s_False
      [] IsStr(v) -> v.str

----------------------------------------------------------------------------
(* DriftSeverity *)

BREAKING == "breaking"
FUNCTIONAL == "functional"
COSMETIC == "cosmetic"
INFORMATIONAL == "informational"
DriftSeverity == {BREAKING, FUNCTIONAL, COSMETIC, INFORMATIONAL}

----------------------------------------------------------------------------
(* DriftComparator *)

\* EPHEMERAL_FIELDS with 'created' left out
EPHEMERAL_FIELDS_without_created == {s_container_id, s_started, s_compose_file}

EPHEMERAL_FIELDS == {s_container_id, s_created, s_started, s_compose_file}

\* normalize_value without the branch for boolean strings
normalize_value_without_bool(value) ==
    IF (IsStr(value) /\ value.str = s_empty) \/ IsNone(value) THEN None ELSE value

\* normalize_value: "" and None become None, 'true'/'false' in any letter
\* case become the bool, everything else is returned unchanged.
normalize_value(value) ==
    IF (IsStr(value) /\ value.str = s_empty) \/ IsNone(value) THEN None
    ELSE IF IsStr(value) /\ StrLower(value.str) \in {s_true, s_false}
         THEN Bool(StrLower(value.str) = s_true)
         ELSE value

\* parse_image splitting on the first ':' (split) instead of the last (rsplit)
parse_image_first_colon(image) ==
    IF HasChar(image, ":")
    THEN <<SplitHead(image, ":"), SplitRest(image, ":")>>
    ELSE <<image, s_latest>>

\* parse_image, the local function of compare_images: <<name, tag>>
parse_image(image) ==
    IF HasChar(image, ":") THEN RSplit(image, ":") ELSE <<image, s_latest>>

\* the "major" of a tag: tag.split('.')[0] if '.' in tag else tag
tag_major(tag) == IF HasChar(tag, ".") THEN SplitHead(tag, ".") ELSE tag

\* compare_images: <<has_drift, severity>>
compare_images(b_image, r_image) ==
    IF b_image = r_image THEN <<FALSE, INFORMATIONAL>>
    ELSE LET baseline_name == parse_image(b_image)[1]
             baseline_tag == parse_image(b_image)[2]
             running_name == parse_image(r_image)[1]
             running_tag == parse_image(r_image)[2]
             baseline_major == tag_major(baseline_tag)
             running_major == tag_major(running_tag)
         IN IF baseline_name # running_name THEN <<TRUE, BREAKING>>
            ELSE IF baseline_tag # running_tag
                 THEN IF baseline_tag # s_latest /\ running_tag = s_latest
                      THEN <<TRUE, BREAKING>>
                      ELSE IF baseline_major # running_major
                              /\ IsDigit(baseline_major) /\ IsDigit(running_major)
                           THEN <<TRUE, BREAKING>>
                           ELSE <<TRUE, FUNCTIONAL>>
                 ELSE <<FALSE, INFORMATIONAL>>

\* critical_env_vars with 'DB_HOST' left out
critical_env_vars_without_DB_HOST ==
    {s_DATABASE_URL, s_DB_PORT, s_REDIS_URL, s_REDIS_HOST,
     s_API_KEY, s_API_URL, s_VPN_, s_TUNNEL_}

critical_env_vars ==
    {s_DATABASE_URL, s_DB_HOST, s_DB_PORT, s_REDIS_URL, s_REDIS_HOST,
     s_API_KEY, s_API_URL, s_VPN_, s_TUNNEL_}

\* is_routing_label testing `in` instead of startswith
is_routing_label_contains(label_key) ==
    Contains(label_key, s_traefik_http_routers) \/ Contains(label_key, s_traefik_http_services)

\* label_key.startswith('traefik.http.routers') or label_key.startswith('traefik.http.services')
is_routing_label(label_key) ==
    StartsWith(label_key, s_traefik_http_routers) \/ StartsWith(label_key, s_traefik_http_services)

\* a default that is informational
default_severity_informational == INFORMATIONAL

\* the severity of a field no rule names: return DriftSeverity.FUNCTIONAL
default_severity == FUNCTIONAL

\* classify_field_severity
classify_field_severity(path, b_value, r_value) ==
    IF path = s_image
    THEN compare_images(PyStr(b_value), PyStr(r_value))[2]
    ELSE IF StartsWith(path, s_environment_dot)
    THEN LET env_var == SplitRest(path, ".")
         IN IF \E critical \in critical_env_vars : StartsWith(env_var, critical)
            THEN BREAKING
            ELSE FUNCTIONAL
    ELSE IF Contains(path, s_ports) THEN FUNCTIONAL
    ELSE IF Contains(path, s_volumes) \/ Contains(path, s_mounts) THEN FUNCTIONAL
    ELSE IF Contains(path, s_networks) THEN FUNCTIONAL
    ELSE IF StartsWith(path, s_labels_dot)
    THEN LET label_key == SplitRest(path, ".")
         IN IF is_routing_label(label_key)
            THEN FUNCTIONAL
            ELSE COSMETIC
    ELSE default_severity

\* dict.get(key): the value, or None when the key is absent
dict_get(d, key) == IF key \in DOMAIN d THEN d[key] ELSE None

\* all_keys taken from the baseline alone
all_keys_baseline_only(b, r) == DOMAIN b

\* all_keys = set(baseline.keys()) | set(running.keys())
all_keys(b, r) == DOMAIN b \cup DOMAIN r

\* current_path = f"{path}.{key}" if path else key
join_path(path, key) == IF path # s_empty THEN path \o s_dot \o key ELSE key

\* an inequality that holds only between values of the same shape
py_ne_same_shape(a, b) ==
    a # b /\ (IsDict(a) <=> IsDict(b)) /\ (IsList(a) <=> IsList(b))

\* baseline_val != running_val.  The values of the model are None, str, bool,
\* list and dict, on which Python's == is structural equality.
py_ne(a, b) == a # b

\* a list comparison that ignores the order of the elements
list_differs_unordered(a, b) ==
    {a.list[i] : i \in DOMAIN a.list} # {b.list[i] : i \in DOMAIN b.list}

\* baseline_val != running_val, on two lists
list_differs(a, b) == a.list # b.list

\* both_none that never holds
both_none_never(b_val, r_val) == FALSE

\* baseline_val is None and running_val is None
both_none(b_val, r_val) == IsNone(b_val) /\ IsNone(r_val)

\* DriftItem.  The description is kept as the f-string template that
\* produced it together with the values it interpolates.
DriftItem(path, b_val, r_val, template) ==
    [field_path |-> path,
     baseline_value |-> b_val,
     running_value |-> r_val,
     severity |-> classify_field_severity(path, b_val, r_val),
     description |-> [template |-> template, path |-> path,
                      baseline_shown |-> (template # "present in running but missing in baseline"),
                      running_shown |-> (template # "present in baseline but missing in running")]]

\* the description that names the other side
missing_description_swapped(baseline_val) ==
    IF IsNone(baseline_val)
    THEN "present in baseline but missing in running"
    ELSE "present in running but missing in baseline"

\* the description of an item with one side None: which side is missing
missing_description(baseline_val) ==
    IF IsNone(baseline_val)
    THEN "present in running but missing in baseline"
    ELSE "present in baseline but missing in running"

\* All the orders in which `for key in all_keys` can visit a set of str
\* keys: the order of a set of strings follows the interpreter's string
\* hashing, which is seeded per process.
IterationOrders(S) ==
    {ord \in [1..Cardinality(S) -> S] : \A i, j \in 1..Cardinality(S) : i # j => ord[i] # ord[j]}

RECURSIVE deep_compare(_, _, _), compare_key(_, _, _, _), compare_loop(_, _, _, _, _)

\* One iteration of the loop of deep_compare: the item sequences the
\* iteration can append to drift_items.
compare_key(key, b, r, path) ==
    LET current_path == join_path(path, key)
        baseline_val == normalize_value(dict_get(b, key))
        running_val == normalize_value(dict_get(r, key))
    IN IF key \in EPHEMERAL_FIELDS THEN {<< >>}
       ELSE IF both_none(baseline_val, running_val) THEN {<< >>}
       ELSE IF IsNone(baseline_val) \/ IsNone(running_val)
       THEN {<<DriftItem(current_path, baseline_val, running_val,
                         missing_description(baseline_val))>>}
       ELSE IF IsDict(baseline_val) /\ IsDict(running_val)
       THEN deep_compare(baseline_val.dict, running_val.dict, current_path)
       ELSE IF IsList(baseline_val) /\ IsList(running_val)
       THEN IF list_differs(baseline_val, running_val)
            THEN {<<DriftItem(current_path, baseline_val, running_val,
                              "List differs between baseline and running")>>}
            ELSE {<< >>}
       ELSE IF py_ne(baseline_val, running_val)
       THEN {<<DriftItem(current_path, baseline_val, running_val, "Field changed from to")>>}
       ELSE {<< >>}

\* The loop over the keys from position i of one iteration order.
compare_loop(ord, i, b, r, path) ==
    IF i > Len(ord) THEN {<< >>}
    ELSE {here \o rest : here \in compare_key(ord[i], b, r, path),
                         rest \in compare_loop(ord, i + 1, b, r, path)}

\* deep_compare(baseline, running, path): the set of lists it can return,
\* one for each order in which the key sets can be iterated.
deep_compare(b, r, path) ==
    UNION {compare_loop(ord, 1, b, r, path) : ord \in IterationOrders(all_keys(b, r))}

\* ServiceDrift.  stack_name and container_id are Optional[str]: None or Str.
ServiceDrift(service_name, stack_name, container_id, has_drift, drift_items, matched, baseline_missing, container_missing) ==
    [service_name |-> service_name,
     stack_name |-> stack_name,
     container_id |-> container_id,
     has_drift |-> has_drift,
     drift_items |-> drift_items,
     matched |-> matched,
     baseline_missing |-> baseline_missing,
     container_missing |-> container_missing]

\* counts = {'breaking': 0, 'functional': 0, 'cosmetic': 0, 'informational': 0}
zero_counts == [s \in DriftSeverity |-> 0]

RECURSIVE count_items(_, _, _)

\* for item in self.drift_items: counts[item.severity.value] += 1
count_items(counts, drift_items, i) ==
    IF i > Len(drift_items) THEN counts
    ELSE count_items([counts EXCEPT ![drift_items[i].severity] = @ + 1], drift_items, i + 1)

\* ServiceDrift.get_severity_counts
get_severity_counts(service_drift) == count_items(zero_counts, service_drift.drift_items, 1)

RECURSIVE sum_counts(_, _, _)

\* for service_drift in self.service_drifts:
\*     for severity, count in counts.items(): summary[severity] += count
sum_counts(summary, service_drifts, i) ==
    IF i > Len(service_drifts) THEN summary
    ELSE sum_counts([s \in DriftSeverity |->
                        summary[s] + get_severity_counts(service_drifts[i])[s]],
                    service_drifts, i + 1)

\* DriftReport.get_severity_summary
get_severity_summary(drift_report) == sum_counts(zero_counts, drift_report.service_drifts, 1)

\* the direct test relaxed to a prefix test
direct_match_by_prefix(b, container_name) == StartsWith(container_name, b.name)

\* baseline.name == container_name
direct_match(b, container_name) == b.name = container_name

\* container_name.startswith(f"{baseline.stack_name}_") and
\* container_name[len(baseline.stack_name) + 1:] == baseline.name
stack_prefix_match(b, container_name) ==
    /\ StartsWith(container_name, b.stack_name \o <<"_">>)
    /\ SubSeq(container_name, Len(b.stack_name) + 2, Len(container_name)) = b.name

\* The position of the first element a `for` loop over a list reaches in S.
first_of(S) == CHOOSE k \in S : \A j \in S : k <= j

\* match_container_to_baseline's "not found" result
NoBaseline == 0

\* match_container_to_baseline with the stack-prefix loop before the direct
\* name loop
match_prefix_first(container_name, baselines) ==
    LET direct == {k \in 1..Len(baselines) : direct_match(baselines[k], container_name)}
        prefixed == {k \in 1..Len(baselines) : stack_prefix_match(baselines[k], container_name)}
    IN IF prefixed # {} THEN first_of(prefixed)
       ELSE IF direct # {} THEN first_of(direct)
       ELSE NoBaseline

\* match_container_to_baseline(container_name, baselines).  The object it
\* returns is identified by its position in baselines; NoBaseline is None.
match_container_to_baseline(container_name, baselines) ==
    LET direct == {k \in 1..Len(baselines) : direct_match(baselines[k], container_name)}
        prefixed == {k \in 1..Len(baselines) : stack_prefix_match(baselines[k], container_name)}
    IN IF direct # {} THEN first_of(direct)
       ELSE IF prefixed # {} THEN first_of(prefixed)
       ELSE NoBaseline

\* the 12 of container.container_id[:12]
ShortIdLength == 12

\* container.container_id[:12]
short_id(container_id) ==
    SubSeq(container_id, 1, IF Len(container_id) < ShortIdLength
                            THEN Len(container_id) ELSE ShortIdLength)

\* an orphan entry that claims to be matched
orphan_drift_matched(container) ==
    ServiceDrift(container.name, None, Str(short_id(container.container_id)),
                 TRUE, << >>, TRUE, TRUE, FALSE)

\* the ServiceDrift of a running container without baseline
orphan_drift(container) ==
    ServiceDrift(container.name, None, Str(short_id(container.container_id)),
                 TRUE, << >>, FALSE, TRUE, FALSE)

\* has_drift that is always set
has_drift_always(drift_items) == TRUE

\* has_drift = len(drift_items) > 0
has_drift_of(drift_items) == Len(drift_items) > 0

\* a matched entry that is also flagged baseline_missing
matched_drift_flagged(container, b, drift_items) ==
    ServiceDrift(container.name, Str(b.stack_name), Str(short_id(container.container_id)),
                 has_drift_of(drift_items), drift_items, TRUE, TRUE, FALSE)

\* the ServiceDrift of a running container compared with its baseline
matched_drift(container, b, drift_items) ==
    ServiceDrift(container.name, Str(b.stack_name), Str(short_id(container.container_id)),
                 has_drift_of(drift_items), drift_items, TRUE, FALSE, FALSE)

\* a missing-container entry that carries the baseline's name as container_id
ghost_drift_with_id(b) ==
    ServiceDrift(b.name, Str(b.stack_name), Str(b.name), TRUE, << >>, FALSE, FALSE, TRUE)

\* the ServiceDrift of a baseline without running container
ghost_drift(b) ==
    ServiceDrift(b.name, Str(b.stack_name), None, TRUE, << >>, FALSE, FALSE, TRUE)

\* total_drift_items that counts one per service
add_drift_items_one(total_drift_items, drift_items) == total_drift_items + 1

\* total_drift_items += len(drift_items)
add_drift_items(total_drift_items, drift_items) == total_drift_items + Len(drift_items)

\* The local variables of compare_configurations before its first loop.
start_of_compare ==
    [service_drifts |-> << >>,
     services_with_drift |-> 0,
     total_drift_items |-> 0,
     matched_baselines |-> {}]

\* One iteration of `for container in running_containers`: the values the
\* local variables can have after it, one for each list deep_compare can
\* return.
container_step(acc, container, baselines) ==
    LET k == match_container_to_baseline(container.name, baselines)
    IN IF k = NoBaseline
       THEN {[acc EXCEPT !.service_drifts = Append(@, orphan_drift(container)),
                         !.services_with_drift = @ + 1]}
       ELSE {[service_drifts |-> Append(acc.service_drifts,
                                        matched_drift(container, baselines[k], drift_items)),
              services_with_drift |->
                  IF has_drift_of(drift_items)
                  THEN acc.services_with_drift + 1
                  ELSE acc.services_with_drift,
              total_drift_items |->
                  IF has_drift_of(drift_items)
                  THEN add_drift_items(acc.total_drift_items, drift_items)
                  ELSE acc.total_drift_items,
              matched_baselines |-> acc.matched_baselines \cup {baselines[k].name}] :
             drift_items \in deep_compare(baselines[k].to_dict, container.to_dict, s_empty)}

RECURSIVE containers_loop(_, _, _, _)

\* for container in running_containers, from position i
containers_loop(acc, i, containers, baselines) ==
    IF i > Len(containers) THEN {acc}
    ELSE UNION {containers_loop(next, i + 1, containers, baselines) :
                next \in container_step(acc, containers[i], baselines)}

\* One iteration of `for baseline in git_baselines`.
baseline_step(acc, b) ==
    IF b.name \notin acc.matched_baselines
    THEN [acc EXCEPT !.service_drifts = Append(@, ghost_drift(b)),
                     !.services_with_drift = @ + 1]
    ELSE acc

RECURSIVE baselines_loop(_, _, _)

\* for baseline in git_baselines, from position i
baselines_loop(acc, i, baselines) ==
    IF i > Len(baselines) THEN acc
    ELSE baselines_loop(baseline_step(acc, baselines[i]), i + 1, baselines)

\* DriftReport.  The timestamp (the wall clock at the return) and the
\* baseline_host and baseline_repo defaults take no part in any computation.
DriftReport(services_analyzed, services_with_drift, total_drift_items, service_drifts) ==
    [services_analyzed |-> services_analyzed,
     services_with_drift |-> services_with_drift,
     total_drift_items |-> total_drift_items,
     service_drifts |-> service_drifts]

\* compare_configurations(running_containers, git_baselines): the set of
\* reports it can return.
compare_configurations(containers, baselines) ==
    {LET acc == baselines_loop(after_containers, 1, baselines)
     IN DriftReport(Len(containers) + Len(baselines) - Cardinality(acc.matched_baselines),
                    acc.services_with_drift,
                    acc.total_drift_items,
                    acc.service_drifts) :
     after_containers \in containers_loop(start_of_compare, 1, containers, baselines)}

----------------------------------------------------------------------------
(* Inputs of deep_compare: configuration records as to_dict() produces   *)
(* them, over a small universe of keys and values.                         *)

\* Total number of leaf values (scalars and empty containers) in the two
\* records handed to one comparison.
MaxWeight == 2

s_labels == <<"l", "a", "b", "e", "l", "s">>
s_app == <<"a", "p", "p">>
s_app_latest == <<"a", "p", "p", ":", "l", "a", "t", "e", "s", "t">>
s_app_1_0 == <<"a", "p", "p", ":", "1", ".", "0">>
s_t1 == <<"t", "1">>
s_t2 == <<"t", "2">>

Absent == [absent |-> TRUE]

ImageValues == {Str(s_empty), Str(s_app), Str(s_app_latest), Str(s_app_1_0)}
CreatedValues == {Str(s_t1), Str(s_t2)}
LeafValues == {None, Str(s_empty), Str(s_True), Bool(TRUE)}
LabelKeys == {s_app, s_created}
ElementValues ==
    {Str(s_True), Bool(TRUE), Dict(EmptyDict), Dict([k \in {s_created} |-> Str(s_t1)])}

DictsOver(K, V) == UNION {[S -> V] : S \in SUBSET K}
ListsUpTo(V, n) == UNION {[1..m -> V] : m \in 0..n}

LabelsValues == {Dict(d) : d \in DictsOver(LabelKeys, LeafValues)}
VolumesValues == {List(l) : l \in ListsUpTo(ElementValues, MaxWeight)}

RECURSIVE Weight(_), SumWeights(_, _)
SumWeights(f, S) ==
    IF S = {} THEN 0
    ELSE LET x == CHOOSE x \in S : TRUE
         IN Weight(f[x]) + SumWeights(f, S \ {x})

\* Number of leaf values of a value; an empty container counts as one.
Weight(v) ==
    IF IsDict(v)
    THEN IF DOMAIN v.dict = {} THEN 1 ELSE SumWeights(v.dict, DOMAIN v.dict)
    ELSE IF IsList(v)
    THEN IF DOMAIN v.list = {} THEN 1 ELSE SumWeights(v.list, DOMAIN v.list)
    ELSE 1

\* The record with the given values, leaving out the absent keys.
ConfigOf(image, created, labels, volumes) ==
    LET full == [k \in {s_image, s_created, s_labels, s_volumes} |->
                    CASE k = s_image -> image
                      [] k = s_created -> created
                      [] k = s_labels -> labels
                      [] k = s_volumes -> volumes]
    IN [k \in {k \in DOMAIN full : full[k] # Absent} |-> full[k]]

ConfigWeight(c) == IF DOMAIN c = {} THEN 0 ELSE SumWeights(c, DOMAIN c)

Configs ==
    {c \in {ConfigOf(i, c, l, v) : i \in ImageValues \cup {Absent},
                                   c \in CreatedValues \cup {Absent},
                                   l \in LabelsValues \cup {Absent},
                                   v \in VolumesValues \cup {Absent}} :
        ConfigWeight(c) <= MaxWeight}

ConfigsByWeight == [w \in 0..MaxWeight |-> {c \in Configs : ConfigWeight(c) = w}]

NotCalled == [called |-> FALSE, items |-> << >>]
Returned(items) == [called |-> TRUE, items |-> items]

----------------------------------------------------------------------------
(* Inputs of compare_images *)

s_other == <<"o", "t", "h", "e", "r">>
s_app_1_2_3 == <<"a", "p", "p", ":", "1", ".", "2", ".", "3">>
s_app_1_2_4 == <<"a", "p", "p", ":", "1", ".", "2", ".", "4">>
s_app_2_0_0 == <<"a", "p", "p", ":", "2", ".", "0", ".", "0">>
s_app_2 == <<"a", "p", "p", ":", "2">>
s_app_1 == <<"a", "p", "p", ":", "1">>
s_app_stable == <<"a", "p", "p", ":", "s", "t", "a", "b", "l", "e">>
s_app_v1_0 == <<"a", "p", "p", ":", "v", "1", ".", "0">>
s_app_v2_0 == <<"a", "p", "p", ":", "v", "2", ".", "0">>
s_app_colon == <<"a", "p", "p", ":">>
s_app_dot1 == <<"a", "p", "p", ":", ".", "1">>
s_other_1_0 == <<"o", "t", "h", "e", "r", ":", "1", ".", "0">>
s_other_latest == <<"o", "t", "h", "e", "r", ":", "l", "a", "t", "e", "s", "t">>
s_reg_app == <<"r", "e", "g", ":", "5", "0", "0", "0", "/", "a", "p", "p">>
s_reg_app_1_0 == <<"r", "e", "g", ":", "5", "0", "0", "0", "/", "a", "p", "p", ":", "1", ".", "0">>
s_reg_app_2_0 == <<"r", "e", "g", ":", "5", "0", "0", "0", "/", "a", "p", "p", ":", "2", ".", "0">>

ImageStrings ==
    {s_app, s_app_latest, s_app_1_0, s_app_1_2_3, s_app_1_2_4, s_app_2_0_0,
     s_app_2, s_app_1, s_app_stable, s_app_v1_0, s_app_v2_0, s_app_colon,
     s_app_dot1, s_other, s_other_1_0, s_other_latest,
     s_reg_app, s_reg_app_1_0, s_reg_app_2_0}

NoImageResult == [called |-> FALSE, has_drift |-> FALSE, severity |-> INFORMATIONAL]

----------------------------------------------------------------------------
(* Inputs of classify_field_severity *)

s_environment == <<"e", "n", "v", "i", "r", "o", "n", "m", "e", "n", "t">>
s_name == <<"n", "a", "m", "e">>
s_LOG_LEVEL == <<"L", "O", "G", "_", "L", "E", "V", "E", "L">>
s_VPN_CONFIG == <<"V", "P", "N", "_", "C", "O", "N", "F", "I", "G">>
s_DB_HOSTNAME == <<"D", "B", "_", "H", "O", "S", "T", "N", "A", "M", "E">>
s_MY_API_KEY == <<"M", "Y", "_", "A", "P", "I", "_", "K", "E", "Y">>
s_DB == <<"D", "B">>
s_TZ == <<"T", "Z">>
s_routers_rule == <<"t", "r", "a", "e", "f", "i", "k", ".", "h", "t", "t", "p", ".", "r", "o", "u", "t", "e", "r", "s", ".", "s", "v", "c", ".", "r", "u", "l", "e">>
s_services_port == <<"t", "r", "a", "e", "f", "i", "k", ".", "h", "t", "t", "p", ".", "s", "e", "r", "v", "i", "c", "e", "s", ".", "s", "v", "c", ".", "p", "o", "r", "t">>
s_traefik_enable == <<"t", "r", "a", "e", "f", "i", "k", ".", "e", "n", "a", "b", "l", "e">>
s_app_version == <<"a", "p", "p", ".", "v", "e", "r", "s", "i", "o", "n">>
s_example_description == <<"c", "o", "m", ".", "e", "x", "a", "m", "p", "l", "e", ".", "d", "e", "s", "c", "r", "i", "p", "t", "i", "o", "n">>
s_backup_volumes == <<"b", "a", "c", "k", "u", "p", ".", "v", "o", "l", "u", "m", "e", "s">>
s_x_ports == <<"x", ".", "p", "o", "r", "t", "s">>
s_my_traefik == <<"m", "y", ".", "t", "r", "a", "e", "f", "i", "k", ".", "h", "t", "t", "p", ".", "r", "o", "u", "t", "e", "r", "s">>
s_compose_networks == <<"c", "o", "m", "p", "o", "s", "e", ".", "n", "e", "t", "w", "o", "r", "k", "s">>
s_ports_80 == <<"p", "o", "r", "t", "s", ".", "8", "0", "/", "t", "c", "p">>
s_networks_proxy == <<"n", "e", "t", "w", "o", "r", "k", "s", ".", "p", "r", "o", "x", "y">>
s_x_labels_y == <<"x", ".", "l", "a", "b", "e", "l", "s", ".", "y">>
s_old == <<"o", "l", "d">>
s_new == <<"n", "e", "w">>

EnvVarNames ==
    critical_env_vars \cup
    {s_VPN_CONFIG, s_DB_HOSTNAME, s_LOG_LEVEL, s_MY_API_KEY, s_DB, s_TZ,
     s_ports, s_image, s_empty}

LabelKeyNames ==
    {s_routers_rule, s_services_port, s_traefik_http_routers, s_traefik_enable,
     s_app_version, s_example_description, s_backup_volumes, s_x_ports,
     s_my_traefik, s_compose_networks, s_mounts, s_image, s_empty}

OtherPaths ==
    {s_image, s_name, s_labels, s_environment, s_ports_80, s_volumes,
     s_networks_proxy, s_mounts, s_x_labels_y}

FieldPaths ==
    {s_environment_dot \o v : v \in EnvVarNames}
    \cup {s_labels_dot \o k : k \in LabelKeyNames}
    \cup OtherPaths

FieldValues ==
    {None, Str(s_old), Str(s_new), Str(s_app_1_0), Str(s_app_latest), Bool(TRUE)}

NoSeverity == [called |-> FALSE, value |-> INFORMATIONAL]

----------------------------------------------------------------------------
(* Inputs of match_container_to_baseline and compare_configurations: the   *)
(* objects carry the attributes the two methods read (.name, .stack_name,  *)
(* .container_id) and the dict their to_dict() returns, with the keys name *)
(* and image as in the objects of the test suite.                          *)

\* Longest running_containers list and longest git_baselines list.
MaxRunning == 2
MaxBaselines == 2

s_web == <<"w", "e", "b">>
s_db == <<"d", "b">>
s_s1 == <<"s", "1">>
s_s2 == <<"s", "2">>
s_s1_web == <<"s", "1", "_", "w", "e", "b">>
s_s2_web == <<"s", "2", "_", "w", "e", "b">>
s_web_2 == <<"w", "e", "b", "-", "2">>
s_long_id == <<"0", "1", "2", "3", "4", "5", "6", "7", "8", "9", "a", "b", "c", "d", "e", "f">>
s_short_id == <<"a", "b", "c", "1", "2", "3">>

\* A running container object and its to_dict().
Container(name, container_id, image) ==
    [name |-> name,
     container_id |-> container_id,
     to_dict |-> [key \in {s_name, s_image} |->
                     IF key = s_name THEN Str(name) ELSE Str(image)]]

\* A git baseline object and its to_dict().
Baseline(name, stack_name, image) ==
    [name |-> name,
     stack_name |-> stack_name,
     to_dict |-> [key \in {s_name, s_image} |->
                     IF key = s_name THEN Str(name) ELSE Str(image)]]

ContainerNames == {s_web, s_db, s_s1_web, s_s2_web, s_web_2}

RunningObjects ==
    {Container(s_web, s_long_id, s_app_1_0),
     Container(s_web, s_short_id, s_app_2),
     Container(s_db, s_short_id, s_app_1_0),
     Container(s_s1_web, s_long_id, s_app_1_0),
     Container(s_s2_web, s_short_id, s_app_2),
     Container(s_web_2, s_short_id, s_app_1_0)}

BaselineObjects ==
    {Baseline(name, stack_name, s_app_1_0) : name \in {s_web, s_db}, stack_name \in {s_s1, s_s2}}
    \cup {Baseline(s_s1_web, s_s2, s_app_1_0)}

\* The running containers of one Docker host have pairwise different names.
RunningLists ==
    {l \in ListsUpTo(RunningObjects, MaxRunning) :
        \A i, j \in 1..Len(l) : l[i].name = l[j].name => i = j}

\* The services of the stacks of one repository differ in their name or in
\* their stack.
BaselineLists ==
    {l \in ListsUpTo(BaselineObjects, MaxBaselines) :
        \A i, j \in 1..Len(l) :
            (l[i].name = l[j].name /\ l[i].stack_name = l[j].stack_name) => i = j}

NoMatchCall == [called |-> FALSE, container_name |-> s_empty, result |-> NoBaseline]
NoReport == [called |-> FALSE, value |-> DriftReport(0, 0, 0, << >>)]

----------------------------------------------------------------------------
(* Inputs of deep_compare with values of different shapes under one key,   *)
(* ordered sequences, and label keys that contain dots.                    *)

s_traefik == <<"t", "r", "a", "e", "f", "i", "k">>
s_enable == <<"e", "n", "a", "b", "l", "e">>

\* networks: a scalar, a sequence or a mapping
NetworksShapes ==
    {Str(s_app), Str(s_True),
     List(<<Str(s_app), Str(s_db)>>), List(<<Str(s_db), Str(s_app)>>),
     List(<<Str(s_app)>>), List(<< >>),
     Dict(EmptyDict), Dict([k \in {s_app} |-> Str(s_db)])}

\* volumes: sequences
VolumesShapes ==
    {List(<<Str(s_app), Str(s_db)>>), List(<<Str(s_db), Str(s_app)>>), List(<< >>)}

\* labels: the key 'traefik.enable', or the key 'traefik' holding a mapping
\* with the key 'enable'
LabelsShapes ==
    {Dict([k \in {s_traefik_enable} |-> Str(v)]) : v \in {s_app, s_db}}
    \cup {Dict([k \in {s_traefik} |-> Dict([e \in {s_enable} |-> Str(v)])]) : v \in {s_app, s_db}}
    \cup {Dict([k \in {s_traefik_enable, s_traefik} |->
                   IF k = s_traefik THEN Dict([e \in {s_enable} |-> Str(s_db)])
                   ELSE Str(s_app)])}

\* The record with the given values, leaving out the absent keys.
ShapeConfigOf(networks, volumes, labels) ==
    LET full == [k \in {s_networks, s_volumes, s_labels} |->
                    CASE k = s_networks -> networks
                      [] k = s_volumes -> volumes
                      [] k = s_labels -> labels]
    IN [k \in {k \in DOMAIN full : full[k] # Absent} |-> full[k]]

\* Total number of top-level keys in the two records of one comparison.
MaxKeys == 3

ShapeConfigs ==
    {ShapeConfigOf(n, v, l) : n \in NetworksShapes \cup {Absent},
                              v \in VolumesShapes \cup {Absent},
                              l \in LabelsShapes \cup {Absent}}


----------------------------------------------------------------------------
(* DockerInspector: the SSH and Docker connections.  ssh_client is "None", *)
(* a connected paramiko client or one whose connect() raised; a client     *)
(* object is true in a Python condition, whether it is connected or not.   *)

\* Longest sequence of DockerInspector calls.
MaxCalls == 4

\* DockerInspector.connect: self.ssh_client is assigned the new SSHClient
\* before ssh_client.connect() is attempted.
connect_outcomes ==
    {[ssh_client |-> "connected", raised |-> "none"],
     [ssh_client |-> "unconnected", raised |-> "SSHConnectionError"]}

\* DockerInspector.connect_docker: the guard on self.ssh_client, then the
\* DockerClient constructor and ping(), each of which can raise.
connect_docker_outcomes(ssh, docker) ==
    IF ssh = "None"
    THEN {[docker_client |-> docker, created |-> FALSE,
           raised |-> "DockerConnectionError: SSH connection not established"]}
    ELSE {[docker_client |-> docker, created |-> FALSE,
           raised |-> "DockerConnectionError: Failed to connect to Docker"],
          [docker_client |-> "DockerClient", created |-> TRUE,
           raised |-> "DockerConnectionError: Failed to connect to Docker"],
          [docker_client |-> "DockerClient", created |-> TRUE, raised |-> "none"]}

----------------------------------------------------------------------------
(* PRGenerator._apply_drift_fix and its inputs *)

RECURSIVE split(_, _)

\* s.split(c)
split(s, c) ==
    IF HasChar(s, c) THEN <<SplitHead(s, c)>> \o split(SplitRest(s, c), c) ELSE <<s>>

\* d[key] = value
dict_set(d, key, value) == [k \in DOMAIN d \cup {key} |-> IF k = key THEN value ELSE d[k]]

RECURSIVE set_at(_, _, _)

\* The loop over path_parts[:-1] and the final assignment: `current` after
\* the fix, unchanged when the path is missing or blocked by a non-dict.
set_at(current, parts, value) ==
    IF Len(parts) = 1
    THEN IF IsDict(current) THEN Dict(dict_set(current.dict, parts[1], value)) ELSE current
    ELSE IF ~IsDict(current) \/ parts[1] \notin DOMAIN current.dict THEN current
    ELSE Dict([current.dict EXCEPT ![parts[1]] = set_at(@, Tail(parts), value)])

\* PRGenerator._apply_drift_fix(service_config, drift): service_config after
\* the call.
apply_drift_fix(config, item) ==
    LET path_parts == split(item.field_path, ".")
    IN IF Len(path_parts) = 1
       THEN dict_set(config, path_parts[1], item.running_value)
       ELSE set_at(Dict(config), path_parts, item.running_value).dict

\* The service mappings of a compose file: image and labels, the labels as a
\* mapping (with plain, dotted and nested keys) or as a list.
FixLabels ==
    {Dict(EmptyDict),
     Dict([k \in {s_app} |-> Str(s_old)]),
     Dict([k \in {s_traefik_enable} |-> Str(s_old)]),
     Dict([k \in {s_traefik} |-> Dict([e \in {s_enable} |-> Str(s_old)])]),
     Dict([k \in {s_traefik_enable, s_traefik} |->
             IF k = s_traefik THEN Dict([e \in {s_enable} |-> Str(s_old)]) ELSE Str(s_old)]),
     List(<<Str(s_app)>>)}

FixConfigs ==
    {LET full == [k \in {s_image, s_labels} |-> IF k = s_image THEN image ELSE labels]
     IN [k \in {k \in DOMAIN full : full[k] # Absent} |-> full[k]] :
     image \in {Absent, Str(s_old)}, labels \in FixLabels \cup {Absent}}

FixPaths == {s_image, s_labels_dot \o s_app, s_labels_dot \o s_traefik_enable}

FixValues == {Str(s_new), Bool(TRUE), None}

NoDrift == [field_path |-> s_empty, running_value |-> None]
NoFix == [called |-> FALSE, value |-> EmptyDict]

----------------------------------------------------------------------------
(* PRGenerator.generate_pr_for_service over a git repository.  A branch is  *)
(* named by its parts, a file by the stack whose docker-compose.yml it is,  *)
(* a commit by the service it was made for and the files it changes.  The   *)
(* drift items of a service are represented by the set of their severity    *)
(* strings, which is all that _generate_commit_message reads of them.       *)

MaxServices == 2

main == [prefix |-> "main", stack |-> s_empty, timestamp |-> 0]

\* f"fix/drift-{stack_name}-{timestamp}"
branch_name_of(stack_name, timestamp) ==
    [prefix |-> "fix/drift", stack |-> stack_name, timestamp |-> timestamp]

\* The start point of `git checkout -b <name>`: the current HEAD.
start_point_main(git) == main

start_point(git) == git.checked_out

\* _create_branch: git checkout -b branch_name (the caller has checked that
\* the name is free; local changes are carried along).
create_branch(git, branch_name) ==
    [git EXCEPT !.branches = @ \cup {branch_name},
                !.checked_out = branch_name,
                !.commits = [b \in DOMAIN @ \cup {branch_name} |->
                                IF b = branch_name THEN @[start_point(git)] ELSE @[b]]]

\* _update_compose_file once the file was read: the fixes are applied and the
\* file is written back; `changed` tells whether its bytes changed.
update_compose_file(git, file, changed) ==
    [git EXCEPT !.dirty = IF changed THEN @ \cup {file} ELSE @]

\* _commit_changes: git add, git commit (of everything staged).
commit_changes(git, service_name) ==
    [git EXCEPT !.commits[git.checked_out] =
                    @ \cup {[service |-> service_name, files |-> git.dirty]},
                !.dirty = {}]

\* The files in which branch b differs from main.
changed_files(git, b) ==
    UNION {c.files : c \in (git.commits[b] \ git.commits[main])
                           \cup (git.commits[main] \ git.commits[b])}

\* git checkout main: refused when a locally changed file differs between the
\* two branches.
checkout_main(git) ==
    IF git.dirty \cap changed_files(git, git.checked_out) = {}
    THEN [git EXCEPT !.checked_out = main]
    ELSE git

\* git branch -D: refused for the checked-out branch.
branch_delete(git, branch_name) ==
    IF git.checked_out = branch_name
    THEN git
    ELSE [git EXCEPT !.branches = @ \ {branch_name},
                     !.commits = [b \in DOMAIN @ \ {branch_name} |-> @[b]]]

\* _cleanup_branch: both commands are run, their return codes are ignored.
cleanup_branch(git, branch_name) == branch_delete(checkout_main(git), branch_name)

\* _generate_commit_message: the commit type.
commit_type_of(severities) ==
    IF "BREAKING" \in severities THEN "fix"
    ELSE IF "FUNCTIONAL" \in severities THEN "fix"
    ELSE "chore"

\* The first line of the message up to the colon: f"{commit_type}({scope}):"
generate_commit_message(service_name, stack_name, severities) ==
    [commit_type |-> commit_type_of(severities), scope |-> stack_name]

NoMessage == [commit_type |-> "", scope |-> s_empty]

\* The ways a call of generate_pr_for_service can end.
Outcomes ==
    {"create_failed", "update_failed", "commit_failed", "push_failed",
     "pr_failed", "pr_created", "dry_run"}

\* Whether the environment can make the call end in `outcome`.
possible(git, is_dry_run, branch_name, file, changed, outcome) ==
    /\ outcome # "create_failed" => branch_name \notin git.branches
    /\ outcome \in {"push_failed", "pr_failed", "pr_created"} => ~is_dry_run
    /\ outcome = "dry_run" => is_dry_run
    /\ outcome \in {"push_failed", "pr_failed", "pr_created", "dry_run"} =>
           update_compose_file(git, file, changed).dirty # {}

\* generate_pr_for_service: the repository after the call, the value it
\* returns and the commit message it generated.
generate_pr_for_service(git, is_dry_run, service, timestamp, changed, outcome) ==
    LET branch_name == branch_name_of(service.stack_name, timestamp)
        created == create_branch(git, branch_name)
        updated == update_compose_file(created, service.stack_name, changed)
        committed == commit_changes(updated, service.service_name)
        message == generate_commit_message(service.service_name, service.stack_name,
                                           service.severities)
    IN CASE outcome = "create_failed" ->
              [git |-> git, returned |-> "None", message |-> NoMessage]
         [] outcome = "update_failed" ->
              [git |-> cleanup_branch(created, branch_name), returned |-> "None",
               message |-> NoMessage]
         [] outcome = "commit_failed" ->
              [git |-> cleanup_branch(updated, branch_name), returned |-> "None",
               message |-> message]
         [] outcome = "push_failed" ->
              [git |-> cleanup_branch(committed, branch_name), returned |-> "None",
               message |-> message]
         [] outcome = "pr_failed" ->
              [git |-> committed, returned |-> "None", message |-> message]
         [] outcome = "pr_created" ->
              [git |-> committed, returned |-> "pr_url", message |-> message]
         [] outcome = "dry_run" ->
              [git |-> committed, returned |-> "None", message |-> message]

\* The service_drifts of a serialized drift report: service, stack and the
\* severities of the drift items as DriftItem.to_dict wrote them (none for a
\* service without drift).
SeverityChoices ==
    {{}, {BREAKING}, {FUNCTIONAL, COSMETIC}, {COSMETIC, INFORMATIONAL}}

PrServices ==
    {[service_name |-> n[1], stack_name |-> n[2], severities |-> sev] :
     n \in {<<s_web, s_s1>>, <<s_db, s_s1>>, <<s_web, s_s2>>}, sev \in SeverityChoices}

ServiceQueues ==
    {q \in UNION {[1..n -> PrServices] : n \in 0..MaxServices} :
        \A i, j \in DOMAIN q :
            i # j => <<q[i].service_name, q[i].stack_name>>
                     # <<q[j].service_name, q[j].stack_name>>}
----------------------------------------------------------------------------
(* Specification of deep_compare: two records are compared, and then      *)
(* either compared a second time or compared with the arguments exchanged. *)

CompareIdle ==
    /\ baseline = EmptyDict /\ running = EmptyDict
    /\ first = NotCalled /\ second = NotCalled /\ swapped = NotCalled

ImagesIdle ==
    /\ baseline_image = s_empty /\ running_image = s_empty
    /\ image_result = NoImageResult

ClassifyIdle ==
    /\ field_path = s_empty /\ baseline_value = None /\ running_value = None
    /\ severity = NoSeverity

ReportIdle ==
    /\ running_containers = << >> /\ git_baselines = << >>
    /\ match_call = NoMatchCall /\ report = NoReport

InspectorIdle ==
    ssh_client = "None" /\ docker_client = "None" /\ calls = << >>

FixIdle ==
    service_config = EmptyDict /\ drift = NoDrift /\ fixed = NoFix

PrIdle ==
    /\ dry_run = FALSE /\ queue = << >> /\ now = 0
    /\ branches = {main} /\ checked_out = main
    /\ commits = [b \in {main} |-> {}] /\ dirty = {} /\ pr_log = << >>

Init ==
    /\ \E w \in 0..MaxWeight :
          /\ baseline \in ConfigsByWeight[w]
          /\ running \in UNION {ConfigsByWeight[u] : u \in 0..(MaxWeight - w)}
    /\ first = NotCalled /\ second = NotCalled /\ swapped = NotCalled
    /\ ImagesIdle
    /\ ClassifyIdle
    /\ ReportIdle
    /\ InspectorIdle /\ FixIdle /\ PrIdle

\* drift_items = comparator.deep_compare(baseline, running)
DeepCompare ==
    /\ ~first.called
    /\ \E items \in deep_compare(baseline, running, s_empty) :
          first' = Returned(items)
    /\ UNCHANGED <<baseline, running, second, swapped, imageVars, classifyVars, reportVars, inspectorVars, fixVars, prVars>>

\* the same call once more on the same arguments, in this interpreter
\* process or in another one
DeepCompareAgain ==
    /\ first.called /\ ~second.called /\ ~swapped.called
    /\ \E items \in deep_compare(baseline, running, s_empty) :
          second' = Returned(items)
    /\ UNCHANGED <<baseline, running, first, swapped, imageVars, classifyVars, reportVars, inspectorVars, fixVars, prVars>>

\* comparator.deep_compare(running, baseline)
DeepCompareSwapped ==
    /\ first.called /\ ~second.called /\ ~swapped.called
    /\ \E items \in deep_compare(running, baseline, s_empty) :
          swapped' = Returned(items)
    /\ UNCHANGED <<baseline, running, first, second, imageVars, classifyVars, reportVars, inspectorVars, fixVars, prVars>>

Next == DeepCompare \/ DeepCompareAgain \/ DeepCompareSwapped

Spec == Init /\ [][Next]_vars

----------------------------------------------------------------------------
(* Specification of compare_images *)

InitImages ==
    /\ baseline_image \in ImageStrings
    /\ running_image \in ImageStrings
    /\ image_result = NoImageResult
    /\ CompareIdle
    /\ ClassifyIdle
    /\ ReportIdle
    /\ InspectorIdle /\ FixIdle /\ PrIdle

\* has_drift, severity = comparator.compare_images(baseline_image, running_image)
CompareImages ==
    /\ ~image_result.called
    /\ image_result' = [called |-> TRUE,
                        has_drift |-> compare_images(baseline_image, running_image)[1],
                        severity |-> compare_images(baseline_image, running_image)[2]]
    /\ UNCHANGED <<baseline_image, running_image, compareVars, classifyVars, reportVars, inspectorVars, fixVars, prVars>>

NextImages == CompareImages

SpecImages == InitImages /\ [][NextImages]_vars

----------------------------------------------------------------------------
(* Specification of classify_field_severity *)

InitClassify ==
    /\ field_path \in FieldPaths
    /\ baseline_value \in FieldValues
    /\ running_value \in FieldValues
    /\ severity = NoSeverity
    /\ CompareIdle
    /\ ImagesIdle
    /\ ReportIdle
    /\ InspectorIdle /\ FixIdle /\ PrIdle

\* severity = comparator.classify_field_severity(field_path, baseline_value, running_value)
ClassifyFieldSeverity ==
    /\ ~severity.called
    /\ severity' = [called |-> TRUE,
                    value |-> classify_field_severity(field_path, baseline_value, running_value)]
    /\ UNCHANGED <<field_path, baseline_value, running_value, compareVars, imageVars, reportVars, inspectorVars, fixVars, prVars>>

NextClassify == ClassifyFieldSeverity

SpecClassify == InitClassify /\ [][NextClassify]_vars

----------------------------------------------------------------------------
(* Specification of match_container_to_baseline and compare_configurations *)

InitReport ==
    /\ running_containers \in RunningLists
    /\ git_baselines \in BaselineLists
    /\ match_call = NoMatchCall
    /\ report = NoReport
    /\ CompareIdle
    /\ ImagesIdle
    /\ ClassifyIdle
    /\ InspectorIdle /\ FixIdle /\ PrIdle

\* baseline = comparator.match_container_to_baseline(container_name, git_baselines)
MatchContainerToBaseline ==
    /\ ~match_call.called /\ ~report.called
    /\ \E container_name \in ContainerNames :
          match_call' = [called |-> TRUE,
                         container_name |-> container_name,
                         result |-> match_container_to_baseline(container_name, git_baselines)]
    /\ UNCHANGED <<running_containers, git_baselines, report,
                   compareVars, imageVars, classifyVars,
                   inspectorVars, fixVars, prVars>>

\* report = comparator.compare_configurations(running_containers, git_baselines)
CompareConfigurations ==
    /\ ~match_call.called /\ ~report.called
    /\ \E drift_report \in compare_configurations(running_containers, git_baselines) :
          report' = [called |-> TRUE, value |-> drift_report]
    /\ UNCHANGED <<running_containers, git_baselines, match_call,
                   compareVars, imageVars, classifyVars,
                   inspectorVars, fixVars, prVars>>

NextReport == MatchContainerToBaseline \/ CompareConfigurations

SpecReport == InitReport /\ [][NextReport]_vars

----------------------------------------------------------------------------
(* Specification of deep_compare on records of different shapes *)

InitShapes ==
    /\ baseline \in ShapeConfigs
    /\ running \in ShapeConfigs
    /\ Cardinality(DOMAIN baseline) + Cardinality(DOMAIN running) <= MaxKeys
    /\ first = NotCalled /\ second = NotCalled /\ swapped = NotCalled
    /\ ImagesIdle
    /\ ClassifyIdle
    /\ ReportIdle
    /\ InspectorIdle /\ FixIdle /\ PrIdle

SpecShapes == InitShapes /\ [][Next]_vars

----------------------------------------------------------------------------
(* Specification of DockerInspector: connect, connect_docker and           *)
(* disconnect in any order.                                                *)

InitInspector ==
    /\ InspectorIdle
    /\ CompareIdle /\ ImagesIdle /\ ClassifyIdle /\ ReportIdle
    /\ FixIdle /\ PrIdle

\* inspector.connect()
Connect ==
    /\ Len(calls) < MaxCalls
    /\ \E outcome \in connect_outcomes :
          /\ ssh_client' = outcome.ssh_client
          /\ calls' = Append(calls, [op |-> "connect", raised |-> outcome.raised,
                                     created |-> FALSE])
    /\ UNCHANGED <<docker_client, compareVars, imageVars, classifyVars, reportVars,
                   fixVars, prVars>>

\* inspector.connect_docker()
ConnectDocker ==
    /\ Len(calls) < MaxCalls
    /\ \E outcome \in connect_docker_outcomes(ssh_client, docker_client) :
          /\ docker_client' = outcome.docker_client
          /\ calls' = Append(calls, [op |-> "connect_docker", raised |-> outcome.raised,
                                     created |-> outcome.created])
    /\ UNCHANGED <<ssh_client, compareVars, imageVars, classifyVars, reportVars,
                   fixVars, prVars>>

\* inspector.disconnect(): both clients are closed and set to None; an error
\* while closing is logged and swallowed.
Disconnect ==
    /\ Len(calls) < MaxCalls
    /\ ssh_client' = "None"
    /\ docker_client' = "None"
    /\ calls' = Append(calls, [op |-> "disconnect", raised |-> "none", created |-> FALSE])
    /\ UNCHANGED <<compareVars, imageVars, classifyVars, reportVars, fixVars, prVars>>

NextInspector == Connect \/ ConnectDocker \/ Disconnect

SpecInspector == InitInspector /\ [][NextInspector]_vars

----------------------------------------------------------------------------
(* Specification of PRGenerator._apply_drift_fix *)

InitFix ==
    /\ service_config \in FixConfigs
    /\ \E path \in FixPaths, value \in FixValues :
          drift = [field_path |-> path, running_value |-> value]
    /\ fixed = NoFix
    /\ CompareIdle /\ ImagesIdle /\ ClassifyIdle /\ ReportIdle
    /\ InspectorIdle /\ PrIdle

\* generator._apply_drift_fix(service_config, drift)
ApplyDriftFix ==
    /\ ~fixed.called
    /\ fixed' = [called |-> TRUE, value |-> apply_drift_fix(service_config, drift)]
    /\ UNCHANGED <<service_config, drift, compareVars, imageVars, classifyVars,
                   reportVars, inspectorVars, prVars>>

NextFix == ApplyDriftFix

SpecFix == InitFix /\ [][NextFix]_vars

----------------------------------------------------------------------------
(* Specification of generate_prs_from_drift_report: one step per service of *)
(* the report.                                                              *)

InitPR ==
    /\ dry_run \in BOOLEAN
    /\ queue \in ServiceQueues
    /\ now = 0
    /\ branches = {main} /\ checked_out = main
    /\ commits = [b \in {main} |-> {}] /\ dirty = {}
    /\ pr_log = << >>
    /\ CompareIdle /\ ImagesIdle /\ ClassifyIdle /\ ReportIdle
    /\ InspectorIdle /\ FixIdle

\* A service without drift items is passed over.
SkipService ==
    /\ queue # << >>
    /\ Head(queue).severities = {}
    /\ queue' = Tail(queue)
    /\ UNCHANGED <<dry_run, now, branches, checked_out, commits, dirty, pr_log,
                   compareVars, imageVars, classifyVars, reportVars,
                   inspectorVars, fixVars>>

\* pr_results[service_name] = generator.generate_pr_for_service(...), at most
\* one second after the previous call.
GeneratePrForService ==
    /\ queue # << >>
    /\ Head(queue).severities # {}
    /\ \E tick \in {0, 1}, changed \in BOOLEAN, outcome \in Outcomes :
          LET service == Head(queue)
              git == [branches |-> branches, checked_out |-> checked_out,
                      commits |-> commits, dirty |-> dirty]
              branch_name == branch_name_of(service.stack_name, now + tick)
              result == generate_pr_for_service(git, dry_run, service, now + tick,
                                                changed, outcome)
          IN /\ possible(git, dry_run, branch_name, service.stack_name, changed, outcome)
             /\ now' = now + tick
             /\ branches' = result.git.branches
             /\ checked_out' = result.git.checked_out
             /\ commits' = result.git.commits
             /\ dirty' = result.git.dirty
             /\ pr_log' = Append(pr_log,
                    [service |-> service, branch |-> branch_name,
                     base |-> start_point(git),
                     inherited |-> create_branch(git, branch_name).commits[branch_name],
                     outcome |-> outcome, returned |-> result.returned,
                     message |-> result.message,
                     checked_out |-> result.git.checked_out,
                     branches |-> result.git.branches,
                     head_commits |-> result.git.commits[result.git.checked_out]])
    /\ queue' = Tail(queue)
    /\ UNCHANGED <<dry_run, compareVars, imageVars, classifyVars, reportVars,
                   inspectorVars, fixVars>>

NextPR == SkipService \/ GeneratePrForService

SpecPR == InitPR /\ [][NextPR]_vars

----------------------------------------------------------------------------
(* Properties of deep_compare *)

\* The exclusion set and the leaf normalization as the properties state
\* them, written out independently of the comparator's own definitions.
ExcludedKeys == {s_container_id, s_created, s_started, s_compose_file}

NormalLeaf(v) ==
    IF IsNone(v) THEN None
    ELSE IF IsStr(v)
    THEN IF v.str = s_empty THEN None
         ELSE IF StrLower(v.str) = s_true THEN Bool(TRUE)
         ELSE IF StrLower(v.str) = s_false THEN Bool(FALSE)
         ELSE v
    ELSE v

RECURSIVE StripEverywhere(_), StripInMappings(_), NormalizeEverywhere(_), NormalizeInMappings(_)

\* v without the excluded keys, in every mapping at any nesting.
StripEverywhere(v) ==
    IF IsDict(v)
    THEN Dict([k \in DOMAIN v.dict \ ExcludedKeys |-> StripEverywhere(v.dict[k])])
    ELSE IF IsList(v)
    THEN List([i \in DOMAIN v.list |-> StripEverywhere(v.list[i])])
    ELSE v

\* v without the excluded keys, in the mappings reached through mapping keys
\* only; a sequence is left as it is.
StripInMappings(v) ==
    IF IsDict(v)
    THEN Dict([k \in DOMAIN v.dict \ ExcludedKeys |-> StripInMappings(v.dict[k])])
    ELSE v

\* v with every leaf normalized, elements of sequences included; a key whose
\* value normalizes to None is the same as an absent key.
NormalizeEverywhere(v) ==
    IF IsDict(v)
    THEN Dict([k \in {k \in DOMAIN v.dict : ~IsNone(NormalizeEverywhere(v.dict[k]))} |->
                  NormalizeEverywhere(v.dict[k])])
    ELSE IF IsList(v)
    THEN List([i \in DOMAIN v.list |-> NormalizeEverywhere(v.list[i])])
    ELSE NormalLeaf(v)

\* v with the values held under mapping keys normalized; a sequence is left
\* as it is.
NormalizeInMappings(v) ==
    IF IsDict(v)
    THEN Dict([k \in {k \in DOMAIN v.dict : ~IsNone(NormalizeInMappings(v.dict[k]))} |->
                  NormalizeInMappings(v.dict[k])])
    ELSE IF IsList(v) THEN v
    ELSE NormalLeaf(v)

\* The segments of a dot path: path.split('.') as a set.
PathSegments(path) ==
    {SubSeq(path, p[1], p[2]) :
        p \in {q \in (1..(Len(path) + 1)) \X (0..Len(path)) :
                  /\ q[1] <= q[2] + 1
                  /\ (q[1] = 1 \/ path[q[1] - 1] = ".")
                  /\ (q[2] = Len(path) \/ path[q[2] + 1] = ".")
                  /\ \A i \in q[1]..q[2] : path[i] # "."}}

ItemsOf(result) == {result.items[i] : i \in 1..Len(result.items)}

\* C1: reflexivity - comparing a record with itself returns the empty list.
C1_Reflexive ==
    (first.called /\ baseline = running) => first.items = << >>

C1_Witness ==
    /\ first.called /\ baseline = running /\ first.items = << >>
    /\ s_labels \in DOMAIN baseline
    /\ DOMAIN baseline[s_labels].dict # {}

\* C2: symmetry of detection - deep_compare(a, b) is non-empty exactly when
\* deep_compare(b, a) is non-empty.
C2_Symmetric ==
    swapped.called => ((first.items # << >>) <=> (swapped.items # << >>))

C2_Witness ==
    /\ swapped.called /\ baseline # running
    /\ first.items # << >> /\ swapped.items # << >>
    /\ DOMAIN baseline # DOMAIN running

\* x is a repository without a tag and y is the same repository with the
\* explicit tag 'latest'.
ImplicitLatest(x, y) ==
    /\ IsStr(x) /\ IsStr(y)
    /\ ~HasChar(x.str, ":")
    /\ y.str = x.str \o <<":">> \o s_latest

\* The two records are identical except for an image written once without a
\* tag and once with the tag 'latest'.
ImplicitTagPair ==
    /\ DOMAIN baseline = DOMAIN running
    /\ s_image \in DOMAIN baseline
    /\ \A k \in DOMAIN baseline \ {s_image} : baseline[k] = running[k]
    /\ \/ ImplicitLatest(baseline[s_image], running[s_image])
       \/ ImplicitLatest(running[s_image], baseline[s_image])

\* C3: implicit-tag equivalence - between records that differ only by an
\* implicit versus explicit 'latest' tag, deep_compare emits no item for the
\* image field.
C3_ImplicitTagNoItem ==
    (first.called /\ ImplicitTagPair) =>
        \A item \in ItemsOf(first) : item.field_path # s_image

\* C4 as stated: records that differ only in excluded keys, at any nesting,
\* produce no item, and no item path has an excluded key as a segment.
C4_ExclusionEverywhere ==
    first.called =>
        /\ StripEverywhere(Dict(baseline)) = StripEverywhere(Dict(running))
              => first.items = << >>
        /\ \A item \in ItemsOf(first) :
              PathSegments(item.field_path) \cap ExcludedKeys = {}

\* C4 amended: ephemeral exclusion - records that differ only in excluded
\* keys of the record itself or of mappings reached through mapping keys
\* produce no item, and no item path has an excluded key as a segment.
C4_ExclusionInMappings ==
    first.called =>
        /\ StripInMappings(Dict(baseline)) = StripInMappings(Dict(running))
              => first.items = << >>
        /\ \A item \in ItemsOf(first) :
              PathSegments(item.field_path) \cap ExcludedKeys = {}

C4_Witness ==
    /\ first.called /\ first.items = << >>
    /\ s_labels \in DOMAIN baseline /\ s_labels \in DOMAIN running
    /\ baseline[s_labels] # running[s_labels]
    /\ StripInMappings(Dict(baseline)) = StripInMappings(Dict(running))

\* C5 as stated: records that become identical once every leaf is
\* normalized, elements of sequences included, show no drift.
C5_NormalizedEverywhere ==
    (first.called
        /\ NormalizeEverywhere(Dict(baseline)) = NormalizeEverywhere(Dict(running)))
    => first.items = << >>

\* C5 amended: value normalization - records that become identical once
\* every value held under a mapping key is normalized show no drift.
C5_NormalizedInMappings ==
    (first.called
        /\ NormalizeInMappings(Dict(baseline)) = NormalizeInMappings(Dict(running)))
    => first.items = << >>

C5_Witness ==
    /\ first.called /\ first.items = << >>
    /\ s_labels \in DOMAIN baseline /\ s_labels \in DOMAIN running
    /\ s_app \in DOMAIN baseline[s_labels].dict
    /\ s_app \in DOMAIN running[s_labels].dict
    /\ baseline[s_labels].dict[s_app] = Str(s_True)
    /\ running[s_labels].dict[s_app] = Bool(TRUE)

\* C6: determinism of output order - a second deep_compare on the same
\* arguments returns the same list in the same order.
C6_SameOrder ==
    second.called => second.items = first.items

\* C10: conservative default - an item is COSMETIC only on a path that
\* begins with 'labels.', and an item on any other path is BREAKING or
\* FUNCTIONAL.
C10_ConservativeDefault ==
    first.called =>
        \A item \in ItemsOf(first) :
            /\ item.severity = COSMETIC => StartsWith(item.field_path, s_labels_dot)
            /\ ~StartsWith(item.field_path, s_labels_dot)
                  => item.severity \in {BREAKING, FUNCTIONAL}

\* The paths at which both records hold nothing once normalized, through
\* nested mappings.
RECURSIVE BothAbsentPaths(_, _, _)

BothAbsentPaths(b, r, path) ==
    UNION {LET here == IF path = << >> THEN key ELSE path \o <<".">> \o key
               b_val == NormalLeaf(IF key \in DOMAIN b THEN b[key] ELSE None)
               r_val == NormalLeaf(IF key \in DOMAIN r THEN r[key] ELSE None)
           IN IF IsNone(b_val) /\ IsNone(r_val) THEN {here}
              ELSE IF IsDict(b_val) /\ IsDict(r_val)
              THEN BothAbsentPaths(b_val.dict, r_val.dict, here)
              ELSE {} :
           key \in DOMAIN b \cup DOMAIN r}

\* C19: every DriftItem has at least one of baseline_value and running_value
\* non-null; when exactly one is null the description states which side is
\* missing; no item is emitted where both sides normalize to absent.
C19_NotBothNull ==
    first.called =>
        /\ \A item \in ItemsOf(first) :
              /\ ~(IsNone(item.baseline_value) /\ IsNone(item.running_value))
              /\ IsNone(item.baseline_value) =>
                    /\ item.description.template = "present in running but missing in baseline"
                    /\ item.description.running_shown /\ ~item.description.baseline_shown
              /\ IsNone(item.running_value) =>
                    /\ item.description.template = "present in baseline but missing in running"
                    /\ item.description.baseline_shown /\ ~item.description.running_shown
        /\ \A item \in ItemsOf(first) :
              item.field_path \notin BothAbsentPaths(baseline, running, << >>)

\* an item for a key the baseline lacks, next to a key that holds '' on one
\* side and nothing on the other
C19_Witness ==
    /\ first.called
    /\ \E item \in ItemsOf(first) : IsNone(item.baseline_value)
    /\ \E key \in DOMAIN baseline :
          /\ ~IsNone(baseline[key])
          /\ key \in BothAbsentPaths(baseline, running, << >>)

\* The number of items of a result at a path, and the items below a path.
CountAt(result, path) ==
    Cardinality({i \in 1..Len(result.items) : result.items[i].field_path = path})

ItemsBelow(result, path) ==
    {item \in ItemsOf(result) :
        /\ Len(item.field_path) > Len(path)
        /\ SubSeq(item.field_path, 1, Len(path) + 1) = path \o <<".">>}

\* A key present on both sides that holds a mapping on exactly one of them.
ShapeVariance(key) ==
    /\ key \in DOMAIN baseline /\ key \in DOMAIN running
    /\ IsDict(baseline[key]) # IsDict(running[key])

\* C21: totality on shape variance - when a key holds a mapping on one side
\* and a sequence or scalar on the other, deep_compare does not recurse and
\* emits exactly one DriftItem at that key's path, holding the two whole
\* values.
C21_ShapeVariance ==
    first.called =>
        \A key \in DOMAIN baseline \cup DOMAIN running :
            ShapeVariance(key) =>
                /\ CountAt(first, key) = 1
                /\ ItemsBelow(first, key) = {}
                /\ \A item \in ItemsOf(first) :
                      item.field_path = key =>
                          /\ item.baseline_value = NormalLeaf(baseline[key])
                          /\ item.running_value = NormalLeaf(running[key])

\* networks is a sequence in the baseline and a non-empty mapping in the
\* running record
C21_Witness ==
    /\ first.called
    /\ s_networks \in DOMAIN baseline /\ s_networks \in DOMAIN running
    /\ IsList(baseline[s_networks])
    /\ IsDict(running[s_networks]) /\ DOMAIN running[s_networks].dict # {}
    /\ CountAt(first, s_networks) = 1

\* Equality of two sequences element by element in the same order.
SameSequence(a, b) == Len(a) = Len(b) /\ \A i \in 1..Len(a) : a[i] = b[i]

RECURSIVE SplitOnDots(_)

SplitOnDots(path) ==
    IF \E i \in 1..Len(path) : path[i] = "."
    THEN LET dot == CHOOSE i \in 1..Len(path) :
                        path[i] = "." /\ \A j \in 1..(i - 1) : path[j] # "."
         IN <<SubSeq(path, 1, dot - 1)>> \o SplitOnDots(SubSeq(path, dot + 1, Len(path)))
    ELSE <<path>>

RECURSIVE KeyPaths(_)

KeyPaths(d) ==
    UNION {{<<key>>} \cup (IF IsDict(d[key])
                           THEN {<<key>> \o rest : rest \in KeyPaths(d[key].dict)}
                           ELSE {}) :
           key \in DOMAIN d}

\* C22: field_path is reconstructable - splitting the field_path of an
\* emitted item on '.' yields the sequence of mapping keys from the record
\* root to the differing value.
C22_PathReconstructable ==
    first.called =>
        \A item \in ItemsOf(first) :
            SplitOnDots(item.field_path) \in KeyPaths(baseline) \cup KeyPaths(running)

----------------------------------------------------------------------------
(* Properties of compare_images *)

\* The image rule as stated: repository and tag around the last ':', a
\* missing tag being 'latest'.
RuleRepository(image) ==
    IF HasChar(image, ":") THEN SubSeq(image, 1, LastIndex(image, ":") - 1) ELSE image

RuleTag(image) ==
    IF HasChar(image, ":") THEN SubSeq(image, LastIndex(image, ":") + 1, Len(image))
    ELSE s_latest

\* The leading dot-segment of a tag.
RuleLeadingSegment(tag) ==
    IF HasChar(tag, ".") THEN SubSeq(tag, 1, FirstIndex(tag, ".") - 1) ELSE tag

\* A segment is numeric when it has at least one character and only digits.
RuleNumeric(seg) == seg # << >> /\ \A i \in 1..Len(seg) : seg[i] \in DigitChars

RuleBreaking(b_image, r_image) ==
    \/ RuleRepository(b_image) # RuleRepository(r_image)
    \/ RuleTag(b_image) # s_latest /\ RuleTag(r_image) = s_latest
    \/ /\ RuleNumeric(RuleLeadingSegment(RuleTag(b_image)))
       /\ RuleNumeric(RuleLeadingSegment(RuleTag(r_image)))
       /\ RuleLeadingSegment(RuleTag(b_image)) # RuleLeadingSegment(RuleTag(r_image))

\* C7: compare_images agrees with the image rule - no drift exactly when
\* repository and tag are equal; otherwise BREAKING for another repository,
\* for a pinned tag that became 'latest' and for differing numeric leading
\* segments, and FUNCTIONAL in every remaining case.
C7_ImageRule ==
    image_result.called =>
        /\ ~image_result.has_drift <=>
              /\ RuleRepository(baseline_image) = RuleRepository(running_image)
              /\ RuleTag(baseline_image) = RuleTag(running_image)
        /\ image_result.has_drift =>
              image_result.severity =
                  IF RuleBreaking(baseline_image, running_image)
                  THEN BREAKING ELSE FUNCTIONAL

C7_Witness ==
    /\ image_result.called
    /\ baseline_image = s_reg_app_1_0 /\ running_image = s_reg_app_2_0
    /\ image_result.has_drift /\ image_result.severity = BREAKING

----------------------------------------------------------------------------
(* Properties of classify_field_severity *)

\* The critical prefixes and the routing prefixes as stated.
RuleCriticalPrefixes ==
    {s_DATABASE_URL, s_DB_HOST, s_DB_PORT, s_REDIS_URL, s_REDIS_HOST,
     s_API_KEY, s_API_URL, s_VPN_, s_TUNNEL_}

RuleRoutingPrefixes == {s_traefik_http_routers, s_traefik_http_services}

\* The text of a path after a prefix.
After(path, prefix) == SubSeq(path, Len(prefix) + 1, Len(path))

\* C8: critical-env escalation - on a path environment.<VAR> the severity is
\* BREAKING when <VAR> starts with a critical prefix and FUNCTIONAL
\* otherwise, whatever the two values are.
C8_CriticalEnv ==
    (severity.called /\ StartsWith(field_path, s_environment_dot)) =>
        severity.value =
            IF \E prefix \in RuleCriticalPrefixes :
                  StartsWith(After(field_path, s_environment_dot), prefix)
            THEN BREAKING ELSE FUNCTIONAL

C8_Witness ==
    /\ severity.called
    /\ field_path = s_environment_dot \o s_DB_HOSTNAME
    /\ baseline_value = None /\ running_value = Str(s_new)
    /\ severity.value = BREAKING

----------------------------------------------------------------------------
(* Properties of match_container_to_baseline and compare_configurations *)

\* The matching rule as the properties state it: the names are equal, or the
\* container name is the stack name, an underscore and the baseline name.
RuleSatisfies(b, c) == b.name = c \/ c = b.stack_name \o <<"_">> \o b.name

\* C11: matching rule - match_container_to_baseline(c, baselines) returns a
\* baseline b only if b.name = c or c = b.stack_name + '_' + b.name, and
\* returns None exactly when no baseline of the list satisfies either.
C11_MatchRule ==
    match_call.called =>
        LET c == match_call.container_name
            k == match_call.result
        IN /\ k # NoBaseline =>
                 k \in 1..Len(git_baselines) /\ RuleSatisfies(git_baselines[k], c)
           /\ k = NoBaseline <=>
                 ~\E j \in 1..Len(git_baselines) : RuleSatisfies(git_baselines[j], c)

\* 's1_web' is matched to baseline web of stack s1 although a baseline of
\* another name precedes it
C11_Witness ==
    /\ match_call.called
    /\ match_call.container_name = s_s1_web
    /\ match_call.result = 2
    /\ git_baselines[1].name = s_db
    /\ git_baselines[2].name = s_web /\ git_baselines[2].stack_name = s_s1

\* The entries of the report, and the baseline the matching returns for the
\* i-th running record (NoBaseline when it returns None).
Entries == report.value.service_drifts

EntrySet == {Entries[j] : j \in 1..Len(Entries)}

MatchOf(i) == match_container_to_baseline(running_containers[i].name, git_baselines)

\* C12: each baseline is matched to at most one running record - when two
\* running records are matched to the same baseline, only the first-seen of
\* them yields an entry with matched = true for that baseline.
C12_FirstSeenOnly ==
    report.called =>
        \A i, j \in 1..Len(running_containers) :
            (i < j /\ MatchOf(i) # NoBaseline /\ MatchOf(i) = MatchOf(j)
                   /\ RuleSatisfies(git_baselines[MatchOf(i)], running_containers[i].name)
                   /\ RuleSatisfies(git_baselines[MatchOf(j)], running_containers[j].name))
            => ~(/\ Entries[j].matched
                 /\ Entries[j].service_name = running_containers[j].name
                 /\ Entries[j].stack_name = Str(git_baselines[MatchOf(j)].stack_name))

\* C13: ghost baselines are always reported - every element of the baseline
\* list that is the match of no running record has an entry with
\* container_missing = true, matched = false and its name and stack_name.
C13_GhostsReported ==
    report.called =>
        \A k \in 1..Len(git_baselines) :
            (\A i \in 1..Len(running_containers) : MatchOf(i) # k)
            => \E e \in EntrySet :
                  /\ e.container_missing /\ ~e.matched
                  /\ e.service_name = git_baselines[k].name
                  /\ e.stack_name = Str(git_baselines[k].stack_name)

\* C14: services_analyzed counts each service once - it equals the number of
\* entries of service_drifts, i.e. the number of running records plus the
\* number of baseline records matched by no running record.
C14_AnalyzedCountsEntries ==
    report.called =>
        /\ report.value.services_analyzed = Len(Entries)
        /\ report.value.services_analyzed =
              Len(running_containers)
              + Cardinality({k \in 1..Len(git_baselines) :
                                \A i \in 1..Len(running_containers) : MatchOf(i) # k})

\* The positions of the running records without baseline, and the number of
\* drift items of the entries at a set of positions.
OrphanPositions == {i \in 1..Len(running_containers) : MatchOf(i) = NoBaseline}

RECURSIVE ItemsAt(_)

ItemsAt(S) ==
    IF S = {} THEN 0
    ELSE LET j == CHOOSE x \in S : TRUE
         IN Len(Entries[j].drift_items) + ItemsAt(S \ {j})

\* C15: orphans are data - for every running record without baseline the
\* report is produced and has exactly one entry for it, with
\* baseline_missing = true, matched = false, has_drift = true and no drift
\* items; the orphan adds 1 to services_with_drift and 0 to
\* total_drift_items.
C15_OrphansAreData ==
    report.called =>
        /\ Len(Entries) >= Len(running_containers)
        /\ \A i \in OrphanPositions :
              /\ Entries[i].service_name = running_containers[i].name
              /\ Entries[i].baseline_missing /\ ~Entries[i].matched
              /\ Entries[i].has_drift /\ Entries[i].drift_items = << >>
        /\ Cardinality({j \in 1..Len(Entries) : Entries[j].baseline_missing})
              = Cardinality(OrphanPositions)
        /\ report.value.services_with_drift =
              Cardinality(OrphanPositions)
              + Cardinality({j \in (1..Len(Entries)) \ OrphanPositions : Entries[j].has_drift})
        /\ report.value.total_drift_items = ItemsAt((1..Len(Entries)) \ OrphanPositions)

\* an orphan next to a matched container with drift items
C15_Witness ==
    /\ report.called
    /\ Len(running_containers) = 2 /\ Len(git_baselines) > 0
    /\ 1 \in OrphanPositions /\ 2 \notin OrphanPositions
    /\ Entries[1].baseline_missing
    /\ report.value.total_drift_items > 0

\* C16: match-state exclusivity - every entry has exactly one of matched,
\* baseline_missing and container_missing set.
C16_ExactlyOneState ==
    report.called =>
        \A e \in EntrySet :
            \/ e.matched /\ ~e.baseline_missing /\ ~e.container_missing
            \/ ~e.matched /\ e.baseline_missing /\ ~e.container_missing
            \/ ~e.matched /\ ~e.baseline_missing /\ e.container_missing

\* a report with an entry of each of the three states
C16_Witness ==
    /\ report.called
    /\ \E e \in EntrySet : e.matched
    /\ \E e \in EntrySet : e.baseline_missing
    /\ \E e \in EntrySet : e.container_missing

\* C17: has_drift definition - has_drift is true if and only if drift_items
\* is non-empty or matched is false.
C17_HasDriftDefinition ==
    report.called =>
        \A e \in EntrySet : e.has_drift <=> (e.drift_items # << >> \/ ~e.matched)

\* a matched entry without drift next to a matched entry with drift
C17_Witness ==
    /\ report.called
    /\ \E e \in EntrySet : e.matched /\ ~e.has_drift /\ e.drift_items = << >>
    /\ \E e \in EntrySet : e.matched /\ e.has_drift /\ e.drift_items # << >>

\* C18 as stated: container_id is present only on matched entries - an entry
\* has a non-null container_id only if matched is true, and the entries with
\* baseline_missing or container_missing carry none.
C18_IdOnlyOnMatched ==
    report.called =>
        \A e \in EntrySet :
            /\ ~IsNone(e.container_id) => e.matched
            /\ (e.baseline_missing \/ e.container_missing) => IsNone(e.container_id)

\* s is the short form of a container id: its first twelve characters, or
\* all of it when it is shorter.
IsShortForm(s, id) ==
    /\ Len(s) <= Len(id) /\ Len(s) <= 12
    /\ (Len(s) = 12 \/ Len(s) = Len(id))
    /\ \A n \in 1..Len(s) : s[n] = id[n]

\* C18: container_id is present exactly on the entries that stem from a
\* running container - the matched entries and the baseline_missing entries
\* carry the short id of their container, the container_missing entries
\* carry none.
C18_IdOnRunningOnly ==
    report.called =>
        /\ \A e \in EntrySet :
              /\ ~IsNone(e.container_id) <=> (e.matched \/ e.baseline_missing)
              /\ e.container_missing => IsNone(e.container_id)
        /\ \A i \in 1..Len(running_containers) :
              /\ IsStr(Entries[i].container_id)
              /\ IsShortForm(Entries[i].container_id.str, running_containers[i].container_id)

\* an orphan with a shortened id, a matched entry and a missing container
C18_Witness ==
    /\ report.called
    /\ \E e \in EntrySet :
          /\ e.baseline_missing /\ IsStr(e.container_id)
          /\ Len(e.container_id.str) = 12
    /\ \E e \in EntrySet : e.matched /\ IsStr(e.container_id)
    /\ \E e \in EntrySet : e.container_missing /\ IsNone(e.container_id)

\* The number of entries with drift, and the sum of the four counts of a
\* severity summary.
EntriesWithDrift == {j \in 1..Len(Entries) : Entries[j].has_drift}

SummaryTotal(summary) ==
    summary[BREAKING] + summary[FUNCTIONAL] + summary[COSMETIC] + summary[INFORMATIONAL]

\* C20: the report counters are consistent with the entries -
\* total_drift_items is the sum of len(drift_items) over service_drifts and
\* the sum of the four counts of get_severity_summary(), and
\* services_with_drift is the number of entries with has_drift = true.
C20_CountersConsistent ==
    report.called =>
        /\ report.value.total_drift_items = ItemsAt(1..Len(Entries))
        /\ report.value.total_drift_items = SummaryTotal(get_severity_summary(report.value))
        /\ report.value.services_with_drift = Cardinality(EntriesWithDrift)

\* two services with drift items of two severities, one of them with two
\* items
C20_Witness ==
    /\ report.called
    /\ report.value.total_drift_items = 3
    /\ report.value.services_with_drift = 2
    /\ get_severity_summary(report.value)[BREAKING] = 1
    /\ get_severity_summary(report.value)[FUNCTIONAL] = 2

\* The first position of a set of list positions.
Lowest(S) == CHOOSE k \in S : \A j \in S : k <= j

\* C26: matching precedence - the first baseline in list order whose name
\* equals the container name is returned whenever one exists, even after an
\* earlier baseline that satisfies the stack-prefix rule; otherwise the first
\* baseline in list order that satisfies the stack-prefix rule.
C26_DirectBeforePrefix ==
    match_call.called =>
        LET c == match_call.container_name
            equal == {j \in 1..Len(git_baselines) : git_baselines[j].name = c}
            prefix == {j \in 1..Len(git_baselines) :
                          c = git_baselines[j].stack_name \o <<"_">> \o git_baselines[j].name}
        IN IF equal # {} THEN match_call.result = Lowest(equal)
           ELSE IF prefix # {} THEN match_call.result = Lowest(prefix)
           ELSE match_call.result = NoBaseline

\* 's1_web' against baseline web of stack s1 followed by a baseline named
\* 's1_web'
C26_Witness ==
    /\ match_call.called
    /\ match_call.container_name = s_s1_web
    /\ Len(git_baselines) = 2
    /\ git_baselines[1].name = s_web /\ git_baselines[1].stack_name = s_s1
    /\ git_baselines[2].name = s_s1_web
    /\ match_call.result = 2

\* The i-th running record is matched by the stack-prefix rule, and both
\* to_dict outputs carry the name field.
PrefixMatched(i) ==
    /\ MatchOf(i) # NoBaseline
    /\ git_baselines[MatchOf(i)].name # running_containers[i].name
    /\ running_containers[i].name =
          git_baselines[MatchOf(i)].stack_name \o <<"_">> \o git_baselines[MatchOf(i)].name
    /\ s_name \in DOMAIN running_containers[i].to_dict
    /\ s_name \in DOMAIN git_baselines[MatchOf(i)].to_dict

\* C30: a stack-prefix match always reports drift - the entry of a running
\* container matched by the stack-prefix rule has a DriftItem with field_path
\* 'name' and severity FUNCTIONAL, so has_drift is true.
C30_PrefixMatchDrifts ==
    report.called =>
        \A i \in 1..Len(running_containers) :
            PrefixMatched(i) =>
                /\ Entries[i].matched /\ Entries[i].has_drift
                /\ \E n \in 1..Len(Entries[i].drift_items) :
                      /\ Entries[i].drift_items[n].field_path = s_name
                      /\ Entries[i].drift_items[n].severity = FUNCTIONAL

\* a prefix-matched container whose image equals the baseline's: the name
\* item is the only one
C30_Witness ==
    /\ report.called
    /\ \E i \in 1..Len(running_containers) :
          /\ PrefixMatched(i)
          /\ running_containers[i].to_dict[s_image] = git_baselines[MatchOf(i)].to_dict[s_image]
          /\ Len(Entries[i].drift_items) = 1
          /\ Entries[i].has_drift

----------------------------------------------------------------------------
(* Properties of DockerInspector *)

\* Before the n-th call an earlier connect() completed successfully and no
\* disconnect() has happened since.
SshEstablishedBefore(n) ==
    \E m \in 1..(n - 1) :
        /\ calls[m].op = "connect" /\ calls[m].raised = "none"
        /\ \A j \in (m + 1)..(n - 1) : calls[j].op # "disconnect"

\* C25: Docker connection requires an established SSH connection -
\* connect_docker raises DockerConnectionError ('SSH connection not
\* established') and creates no Docker client unless an earlier connect()
\* completed successfully and no disconnect() has happened since.
C25_DockerNeedsSsh ==
    \A n \in 1..Len(calls) :
        (calls[n].op = "connect_docker" /\ ~SshEstablishedBefore(n)) =>
            /\ calls[n].raised = "DockerConnectionError: SSH connection not established"
            /\ ~calls[n].created

----------------------------------------------------------------------------
(* Properties of PRGenerator *)

\* The label key a field_path of the form labels.<key> names.
LabelKeyOf(path) == SubSeq(path, Len(s_labels) + 2, Len(path))

\* C23: remediation overwrites the value named by field_path - for a
\* field_path labels.<key> where <key> contains dots and the service's labels
\* mapping holds <key>, _apply_drift_fix sets service_config['labels'][<key>]
\* to the item's running value.
C23_FixOverwritesLabel ==
    (/\ fixed.called
     /\ Len(drift.field_path) > Len(s_labels) + 1
     /\ SubSeq(drift.field_path, 1, Len(s_labels) + 1) = s_labels \o <<".">>
     /\ \E i \in 1..Len(LabelKeyOf(drift.field_path)) : LabelKeyOf(drift.field_path)[i] = "."
     /\ s_labels \in DOMAIN service_config
     /\ IsDict(service_config[s_labels])
     /\ LabelKeyOf(drift.field_path) \in DOMAIN service_config[s_labels].dict)
    => /\ s_labels \in DOMAIN fixed.value
       /\ IsDict(fixed.value[s_labels])
       /\ LabelKeyOf(drift.field_path) \in DOMAIN fixed.value[s_labels].dict
       /\ fixed.value[s_labels].dict[LabelKeyOf(drift.field_path)] = drift.running_value

\* The log entries of the calls that generated a commit message.
WithMessage == {i \in DOMAIN pr_log : pr_log[i].message # NoMessage}

\* C24: commit type follows severity - for drift items built from a serialized
\* report, the commit message starts with fix(<stack>): when at least one item
\* is breaking or functional, and with chore(<stack>): only when every item is
\* cosmetic or informational.
C24_CommitTypeFollowsSeverity ==
    \A i \in WithMessage :
        LET sev == pr_log[i].service.severities
            serious == sev \cap {"breaking", "functional"} # {}
        IN /\ pr_log[i].message.scope = pr_log[i].service.stack_name
           /\ serious => pr_log[i].message.commit_type = "fix"
           /\ ~serious => pr_log[i].message.commit_type = "chore"

\* The calls that returned None because a step after branch creation failed.
FailedAfterCreation ==
    {i \in DOMAIN pr_log :
        pr_log[i].outcome \in {"update_failed", "commit_failed", "push_failed", "pr_failed"}}

\* C28: whenever generate_pr_for_service returns None because a step after
\* branch creation failed, the branch it created has been deleted locally and
\* main is checked out again before it returns.
C28_CleanupAfterFailure ==
    \A i \in FailedAfterCreation :
        /\ pr_log[i].returned = "None"
        /\ pr_log[i].branch \notin pr_log[i].branches
        /\ pr_log[i].checked_out = main

\* The calls that finished without a cleanup: PR created, or dry run.
FinishedWithoutCleanup == {i \in DOMAIN pr_log : pr_log[i].outcome \in {"pr_created", "dry_run"}}

\* C29: after generate_pr_for_service finishes without a cleanup the
\* checked-out branch is the new fix/drift-<stack>-<timestamp> branch, not
\* main, and the branch the next call creates starts from it and contains
\* its commit.
C29_NextBranchStacksOnPrevious ==
    \A i \in FinishedWithoutCleanup :
        /\ pr_log[i].checked_out = pr_log[i].branch
        /\ pr_log[i].checked_out # main
        /\ pr_log[i].branch.prefix = "fix/drift"
        /\ pr_log[i].branch.stack = pr_log[i].service.stack_name
        /\ (i + 1 \in DOMAIN pr_log /\ pr_log[i + 1].outcome # "create_failed") =>
              /\ pr_log[i + 1].base = pr_log[i].branch
              /\ \E c \in pr_log[i + 1].inherited :
                    c.service = pr_log[i].service.service_name

C29_Witness ==
    /\ Len(pr_log) = 2
    /\ pr_log[1].outcome = "pr_created"
    /\ pr_log[2].outcome = "pr_created"
    /\ pr_log[2].base = pr_log[1].branch
    /\ Cardinality(pr_log[2].head_commits) = 2

====
